---- MODULE Spec2Model ----
(***************************************************************************)
(* Model of frcmap/frcgeocoder/geocoder.py: the FRCGeocoder location       *)
(* pipeline (override -> archive -> live geocoding -> dedup -> archive     *)
(* save) for teams and events.                                             *)
(*                                                                         *)
(* Encoding of Python values:                                              *)
(*   dict            a function with a string domain (d.update(e) is       *)
(*                   e @@ d); the empty dict is <<>>                       *)
(*   ordered batch   a sequence of entries [key |-> k, val |-> v] in       *)
(*                   insertion order (dict iteration order)                *)
(*   float           an integer (one unit = one sigma of the jitter)       *)
(*   None (lat/lng)  the number None                                       *)
(*   str             a sequence of one-character strings                   *)
(*   None (text)     the sequence NoneStr                                  *)
(***************************************************************************)
EXTENDS Integers, Sequences, FiniteSets, TLC

\* ---------------------------------------------------------------- bounds
NumKeys == 2          \* number of distinct entity identifiers, and longest batch

\* ------------------------------------------------------- Python encodings
None == 0 - 999
NoneStr == <<"None">>
EmptyDict == <<>>

KeyNames == <<"k1", "k2", "k3", "k4">>
Keys == {KeyNames[n] : n \in 1..NumKeys}

UNKNOWN == [lat |-> None, lng |-> None]

Loc(a, b) == [lat |-> a, lng |-> b]
L0 == Loc(70, 80)     \* a location already on the incoming record
L1 == Loc(10, 20)     \* override location / provider answer
L2 == Loc(30, 40)     \* archived location / provider answer
L3 == Loc(50, 60)     \* content of an older archive file

\* random.gauss(x, sigma) - x: a draw below x, equal to x, or above x
Jitter == {0 - 1, 0, 1}

\* ------------------------------------------------------ address synthesis
Whitespace == {" ", "\t", "\n"}

notNone(value) == IF value /= NoneStr THEN value ELSE <<>>

read(obj, key) == IF key \in DOMAIN obj THEN notNone(obj[key]) ELSE <<>>

\* str.split(): the maximal runs of non-whitespace characters
RECURSIVE SplitWs(_, _, _)
SplitWs(s, cur, acc) ==
  IF s = <<>> THEN (IF cur = <<>> THEN acc ELSE Append(acc, cur))
  ELSE IF Head(s) \in Whitespace
       THEN SplitWs(Tail(s), <<>>, IF cur = <<>> THEN acc ELSE Append(acc, cur))
       ELSE SplitWs(Tail(s), Append(cur, Head(s)), acc)

\* sep.join(parts)
RECURSIVE Join(_, _)
Join(sep, parts) ==
  IF parts = <<>> THEN <<>>
  ELSE IF Len(parts) = 1 THEN parts[1]
  ELSE parts[1] \o sep \o Join(sep, Tail(parts))

\* str.strip(): drop leading and trailing whitespace
RECURSIVE LStrip(_)
LStrip(s) == IF s /= <<>> /\ Head(s) \in Whitespace THEN LStrip(Tail(s)) ELSE s

RECURSIVE RStrip(_)
RStrip(s) ==
  IF s /= <<>> /\ s[Len(s)] \in Whitespace THEN RStrip(SubSeq(s, 1, Len(s) - 1)) ELSE s

Strip(s) == RStrip(LStrip(s))

NoAddr == <<"NoAddr">>     \* make_*_address returning None

make_team_address(data) ==
  LET addr == Join(<<" ">>,
                SplitWs(read(data, "school_name") \o <<" ">> \o read(data, "city")
                        \o <<" ">> \o read(data, "state_prov") \o <<" ">>
                        \o read(data, "postal_code") \o <<" ">> \o read(data, "country"),
                        <<>>, <<>>))
  IN IF addr = <<>> THEN NoAddr ELSE addr

make_event_address(data) ==
  LET addr == Strip(Join(<<" ">>,
                <<read(data, "venue"), read(data, "address"), read(data, "city"),
                  read(data, "state_prov"), read(data, "postal_code"),
                  read(data, "country")>>))
  IN IF addr = <<>> THEN NoAddr ELSE addr

\* ------------------------------------------------------------ dict helpers
\* dict.update on a record
Update(rec, other) == other @@ rec

\* mutant: only a fully null location counts as missing
noloc_Both(item) == item["lat"] = None /\ item["lng"] = None

noloc(item) == item["lat"] = None \/ item["lng"] = None

\* mutant: only the latitude identifies a location
location_tuple_LatOnly(item) == <<item["lat"]>>

location_tuple(item) == <<item["lat"], item["lng"]>>

BatchKeys(coll) == {coll[n].key : n \in 1..Len(coll)}

IndexOf(coll, k) == CHOOSE n \in 1..Len(coll) : coll[n].key = k

Get(coll, k) == coll[IndexOf(coll, k)].val

\* objects[key] = value on an insertion-ordered dict
SetItem(coll, k, v) ==
  IF k \in BatchKeys(coll)
  THEN [coll EXCEPT ![IndexOf(coll, k)].val = v]
  ELSE Append(coll, [key |-> k, val |-> v])

\* the {lat, lng} projection and UNKNOWN filter of __save_*_archive
Projection(v0) == [k1 \in DOMAIN v0 \cap {"lat", "lng"} |-> v0[k1]]

ArchiveData(coll) ==
  [k0 \in {k \in BatchKeys(coll) : ~noloc(Get(coll, k))} |-> Projection(Get(coll, k0))]

\* ---------------------------------------------------------- archive files
Years == {2021, 2022}

TeamFileName(y) == IF y = 2021 THEN "all_team_locations_2021.json"
                   ELSE "all_team_locations_2022.json"

EventFileName == "all_event_locations.json"

\* years[int(m.group(1))] for the directory entries the pattern matches
MatchedYears(dir) == {y \in Years : TeamFileName(y) \in DOMAIN dir}

\* mutant: the smallest year is taken
Max_Smallest(S) == CHOOSE m \in S : \A x \in S : m <= x

Max(S) == CHOOSE m \in S : \A x \in S : x <= m

NoFile == "none"

\* latest = years[max(years.keys())]
latest_team_file(dir) ==
  IF MatchedYears(dir) /= {} THEN TeamFileName(Max(MatchedYears(dir))) ELSE NoFile

\* mutant: the file of the smallest year is read
read_team_archive_Oldest(dir) ==
  IF MatchedYears(dir) /= {}
  THEN dir[TeamFileName(CHOOSE m \in MatchedYears(dir) : \A x \in MatchedYears(dir) : m <= x)]
  ELSE EmptyDict

read_team_archive(dir) ==
  IF MatchedYears(dir) /= {} THEN dir[latest_team_file(dir)] ELSE EmptyDict

read_event_archive(dir) ==
  IF EventFileName \in DOMAIN dir THEN dir[EventFileName] ELSE EmptyDict

\* mutant: the new data is merged into the file's previous content
WriteFile_Merge(dir, name, data) ==
  [f \in DOMAIN dir \cup {name} |->
     IF f = name THEN (IF name \in DOMAIN dir THEN data @@ dir[name] ELSE data)
     ELSE dir[f]]

\* open(name, "w") and json.dump(data): create or overwrite the whole file
WriteFile(dir, name, data) ==
  [f \in DOMAIN dir \cup {name} |-> IF f = name THEN data ELSE dir[f]]

\* ------------------------------------------------------------ input sets
\* Override Map entries: a partial field set or a full Location
OverrideVals == {[lat |-> 10], L1}

OverrideMaps == UNION {[S -> OverrideVals] : S \in SUBSET Keys}

\* archive contents as __save_*_archive writes them: full locations only
Archives == UNION {[S -> {L2}] : S \in SUBSET Keys}

OldArchive == [k \in Keys |-> L3]

\* archive directories: empty; a 2022 team file and the event file; or an
\* emptied 2022 team file next to a 2021 team file.  Team and event
\* identifiers share the labels of Keys, and so do the two archives' contents.
Dirs ==
  {EmptyDict}
  \cup {(TeamFileName(2022) :> a) @@ (EventFileName :> a) : a \in Archives}
  \cup {(TeamFileName(2021) :> OldArchive) @@ (TeamFileName(2022) :> EmptyDict)}

TeamInfos == {EmptyDict, [city |-> <<"a">>], [school_name |-> NoneStr, city |-> <<" ">>]}

EventInfos == {EmptyDict, [is_official |-> FALSE, city |-> <<"a">>], [is_official |-> TRUE]}

\* records arrive with lat and lng present, both null or both set
InitialLocs == {UNKNOWN, L0}

\* incoming team records: without a location, or with one and the address
\* fields that matter to the geocoding tier
TeamProtos ==
  {Update(UNKNOWN, info) : info \in {EmptyDict, [city |-> <<"a">>]}}
  \cup {Update(L0, info) : info \in TeamInfos \ {EmptyDict}}

\* incoming event records: without a location, or with one
EventProtos == {Update(UNKNOWN, info) : info \in EventInfos} \cup {L0}

\* the batches a caller may pass, in collection order: identifiers are
\* interchangeable, so the batches over k1..km in that order cover every
\* key set and every order
BatchesOf(protos) ==
  UNION {{[n \in 1..m |-> [key |-> KeyNames[n], val |-> Update(r[n], [key |-> KeyNames[n]])]] :
            r \in [1..m -> protos]} : m \in 0..NumKeys}

\* answers of gmaps.geocode(addr): an exception, or a list of results each
\* carrying geometry.location (possibly empty)
ProviderAnswers == {[kind |-> "raise", results |-> <<>>], [kind |-> "ok", results |-> <<>>],
                    [kind |-> "ok", results |-> <<L1>>],
                    [kind |-> "ok", results |-> <<L1, L2>>]}

\* outcomes of first_api.enhance_event_data(event): an exception, or extra
\* address fields merged into the record
EnhanceAnswers == {[kind |-> "raise"], [kind |-> "ok", fields |-> EmptyDict],
                   [kind |-> "ok", fields |-> [venue |-> <<"a">>]]}

\* ------------------------------------------------------------------ state
VARIABLES dir,            \* archive directory: file name -> parsed JSON content
          self_teams,     \* self.teams, the team Override Map
          self_events,    \* self.events, the event Override Map
          team_archive,   \* self.team_archive
          event_archive,  \* self.event_archive
          teams,          \* the teams dict of the running populate_team_locations
          events,         \* the events dict of the running populate_event_locations
          year,           \* the year argument of populate_team_locations
          pc,             \* position in the running call
          idx,            \* position of the running for loop
          iter_used,      \* dict size recorded by the events.items() iterator
          ulocs,          \* ulocs of the running __dedup_locations
          calls,          \* collaborator invocations so far, in order
          perturbed,      \* keys handed to __randomnize_location so far
          latest,         \* the team archive file chosen by __read_team_archive
          resolved,       \* the batch as the resolution loop of the call left it
          prev,           \* the batch as the call before the last construction left it
          addr_in,        \* the argument of a make_*_address call
          addr_out        \* the result of a make_*_address call

vars == <<dir, self_teams, self_events, team_archive, event_archive, teams, events,
          year, pc, idx, iter_used, ulocs, calls, perturbed, latest, resolved, prev,
          addr_in, addr_out>>

config == <<self_teams, self_events, team_archive, event_archive, latest>>

scratch == <<addr_in, addr_out>>

\* no call has been followed by a new construction yet
FirstRun == [done |-> FALSE, teams |-> <<>>]

\* FRCGeocoder.__init__: store the overrides, read both archives.  The two
\* Override Maps are drawn alike: each call reads only its own.
Init ==
  /\ dir \in Dirs
  /\ self_teams \in OverrideMaps
  /\ self_events = self_teams
  /\ team_archive = read_team_archive(dir)
  /\ event_archive = read_event_archive(dir)
  /\ teams = <<>>
  /\ events = <<>>
  /\ year = 0
  /\ pc = "idle"
  /\ idx = 0
  /\ iter_used = 0
  /\ ulocs = EmptyDict
  /\ calls = <<>>
  /\ perturbed = {}
  /\ latest = latest_team_file(dir)
  /\ resolved = <<>>
  /\ prev = FirstRun
  /\ addr_in = EmptyDict
  /\ addr_out = NoAddr

\* --------------------------------------------------------------- geocoding
\* whether gmaps.geocode(addr)[0]["geometry"]["location"] yields a location
Answered(ans) == ans.kind = "ok" /\ Len(ans.results) > 0

\* an entry of the collaborator call log
Call(op, key, ok) == [op |-> op, key |-> key, ok |-> ok]

\* mutant: a failed lookup leaves the record as it was
geolocate_team_KeepOnFailure(team, ans) ==
  LET addr == make_team_address(team)
  IN IF addr /= NoAddr /\ Answered(ans) THEN Update(team, ans.results[1]) ELSE team

\* __geolocate_team, given the provider's answer should it be asked
geolocate_team(team, ans) ==
  LET addr == make_team_address(team)
  IN IF addr = NoAddr THEN Update(team, UNKNOWN)
     ELSE IF Answered(ans) THEN Update(team, ans.results[1])
     ELSE Update(team, UNKNOWN)

\* __geolocate_event, given the provider's answer should it be asked
geolocate_event(event, ans) ==
  LET addr == make_event_address(event)
  IN IF addr = NoAddr THEN Update(event, UNKNOWN)
     ELSE IF Answered(ans) THEN Update(event, ans.results[1])
     ELSE Update(event, UNKNOWN)

\* ------------------------------------------------ populate_team_locations
CallPopulateTeams ==
  /\ pc = "idle" /\ ~prev.done
  /\ \E batch \in BatchesOf(TeamProtos), y \in Years :
       /\ teams' = batch
       /\ year' = y
  /\ pc' = "team_loop"
  /\ idx' = 1
  /\ UNCHANGED <<resolved, prev, scratch, dir, config, events, iter_used, ulocs, calls, perturbed>>

\* mutant: the archive tier is skipped
TeamTier_SkipArchive(key) ==
  IF key \in DOMAIN self_teams THEN "override" ELSE "geocode"

\* mutant: the override tier is skipped
TeamTier_SkipOverride(key) ==
  IF key \in DOMAIN team_archive THEN "archive" ELSE "geocode"

\* the if / elif / else of the resolution loop: first match wins
TeamTier(key) ==
  IF key \in DOMAIN self_teams THEN "override"
  ELSE IF key \in DOMAIN team_archive THEN "archive"
  ELSE "geocode"

\* first priority: the manual overrides
TeamOverride ==
  /\ pc = "team_loop" /\ idx <= Len(teams)
  /\ TeamTier(teams[idx].key) = "override"
  /\ teams' = [teams EXCEPT ![idx].val = Update(@, self_teams[teams[idx].key])]
  /\ idx' = idx + 1
  /\ UNCHANGED <<resolved, prev, scratch, dir, config, events, year, pc, iter_used, ulocs, calls, perturbed>>

\* otherwise the archived location
TeamArchived ==
  /\ pc = "team_loop" /\ idx <= Len(teams)
  /\ TeamTier(teams[idx].key) = "archive"
  /\ teams' = [teams EXCEPT ![idx].val = Update(@, team_archive[teams[idx].key])]
  /\ idx' = idx + 1
  /\ UNCHANGED <<resolved, prev, scratch, dir, config, events, year, pc, iter_used, ulocs, calls, perturbed>>

\* if all else fails, geocode the address
TeamGeocode ==
  /\ pc = "team_loop" /\ idx <= Len(teams)
  /\ TeamTier(teams[idx].key) = "geocode"
  /\ IF make_team_address(teams[idx].val) = NoAddr
     THEN /\ teams' = [teams EXCEPT ![idx].val = geolocate_team(@, [kind |-> "raise", results |-> <<>>])]
          /\ calls' = calls
     ELSE \E ans \in ProviderAnswers :
          /\ teams' = [teams EXCEPT ![idx].val = geolocate_team(@, ans)]
          /\ calls' = Append(calls, Call("geocode", teams[idx].key, Answered(ans)))
  /\ idx' = idx + 1
  /\ UNCHANGED <<resolved, prev, scratch, dir, config, events, year, pc, iter_used, ulocs, perturbed>>

TeamLoopEnd ==
  /\ pc = "team_loop" /\ idx > Len(teams)
  /\ pc' = "team_dedup"
  /\ idx' = 1
  /\ ulocs' = EmptyDict
  /\ resolved' = teams
  /\ UNCHANGED <<prev, scratch, dir, config, teams, events, year, iter_used, calls, perturbed>>

\* ------------------------------------------------------ __dedup_locations
\* mutant: entities without a location are not skipped
DedupStep_NoSkip(objects) ==
  LET key == objects[idx].key
      obj == objects[idx].val
      loc == location_tuple(obj)
  IN IF loc \in DOMAIN ulocs
     THEN \E dlat \in Jitter, dlng \in Jitter :
            /\ objects' = [objects EXCEPT ![idx].val =
                             Update(@, Loc(obj["lat"] + dlat, obj["lng"] + dlng))]
            /\ perturbed' = perturbed \cup {key}
            /\ UNCHANGED ulocs
     ELSE /\ ulocs' = (loc :> key) @@ ulocs
          /\ objects' = objects
          /\ UNCHANGED perturbed

\* mutant: on a collision the earlier holder of the pair is moved
DedupStep_MoveFirst(objects) ==
  LET key == objects[idx].key
      obj == objects[idx].val
      loc == location_tuple(obj)
  IN IF noloc(obj)
     THEN objects' = objects /\ UNCHANGED <<ulocs, perturbed>>
     ELSE IF loc \in DOMAIN ulocs
     THEN \E dlat \in Jitter, dlng \in Jitter :
            /\ objects' = [objects EXCEPT ![IndexOf(objects, ulocs[loc])].val =
                             Update(@, Loc(obj["lat"] + dlat, obj["lng"] + dlng))]
            /\ perturbed' = perturbed \cup {ulocs[loc]}
            /\ UNCHANGED ulocs
     ELSE /\ ulocs' = (loc :> key) @@ ulocs
          /\ objects' = objects
          /\ UNCHANGED perturbed

\* one iteration of the loop over objects.items()
DedupStep(objects) ==
  LET key == objects[idx].key
      obj == objects[idx].val
      loc == location_tuple(obj)
  IN IF noloc(obj)
     THEN objects' = objects /\ UNCHANGED <<ulocs, perturbed>>
     ELSE IF loc \in DOMAIN ulocs
     THEN \E dlat \in Jitter, dlng \in Jitter :
            /\ objects' = [objects EXCEPT ![idx].val =
                             Update(@, Loc(obj["lat"] + dlat, obj["lng"] + dlng))]
            /\ perturbed' = perturbed \cup {key}
            /\ UNCHANGED ulocs
     ELSE /\ ulocs' = (loc :> key) @@ ulocs
          /\ objects' = objects
          /\ UNCHANGED perturbed

TeamDedup ==
  /\ pc = "team_dedup" /\ idx <= Len(teams)
  /\ DedupStep(teams)
  /\ idx' = idx + 1
  /\ UNCHANGED <<resolved, prev, scratch, dir, config, events, year, pc, iter_used, calls>>

TeamDedupEnd ==
  /\ pc = "team_dedup" /\ idx > Len(teams)
  /\ pc' = "team_save"
  /\ UNCHANGED <<resolved, prev, scratch, dir, config, teams, events, year, idx, iter_used, ulocs, calls, perturbed>>

\* mutant: the archive is written from the batch as it was before dedup
TeamSave_BeforeDedup ==
  /\ pc = "team_save"
  /\ dir' = WriteFile(dir, TeamFileName(year), ArchiveData(resolved))
  /\ pc' = "team_returned"
  /\ UNCHANGED <<resolved, prev, scratch, config, teams, events, year, idx, iter_used, ulocs, calls, perturbed>>

\* __save_team_archive, then return
TeamSave ==
  /\ pc = "team_save"
  /\ dir' = WriteFile(dir, TeamFileName(year), ArchiveData(teams))
  /\ pc' = "team_returned"
  /\ UNCHANGED <<resolved, prev, scratch, config, teams, events, year, idx, iter_used, ulocs, calls, perturbed>>

\* mutant: the new geocoder keeps the archives of the old one
Reconstruct_KeepArchive ==
  /\ pc = "team_returned" /\ ~prev.done
  /\ prev' = [done |-> TRUE, teams |-> teams]
  /\ pc' = "idle"
  /\ idx' = 0
  /\ ulocs' = EmptyDict
  /\ calls' = <<>>
  /\ perturbed' = {}
  /\ resolved' = <<>>
  /\ UNCHANGED <<scratch, dir, config, teams, events, year, iter_used>>

\* a new FRCGeocoder over the same directory with the same overrides
Reconstruct ==
  /\ pc = "team_returned" /\ ~prev.done
  /\ team_archive' = read_team_archive(dir)
  /\ event_archive' = read_event_archive(dir)
  /\ latest' = latest_team_file(dir)
  /\ prev' = [done |-> TRUE, teams |-> teams]
  /\ pc' = "idle"
  /\ idx' = 0
  /\ ulocs' = EmptyDict
  /\ calls' = <<>>
  /\ perturbed' = {}
  /\ resolved' = <<>>
  /\ UNCHANGED <<scratch, dir, self_teams, self_events, teams, events, year, iter_used>>

\* populate_team_locations once more, over the same teams and year
CallPopulateTeamsAgain ==
  /\ pc = "idle" /\ prev.done
  /\ pc' = "team_loop"
  /\ idx' = 1
  /\ UNCHANGED <<prev, scratch, dir, config, teams, events, year, iter_used, ulocs,
                 calls, perturbed, resolved>>

TeamNext == CallPopulateTeams \/ TeamOverride \/ TeamArchived \/ TeamGeocode
            \/ TeamLoopEnd \/ TeamDedup \/ TeamDedupEnd \/ TeamSave

\* ----------------------------------------------- populate_event_locations
CallPopulateEvents ==
  /\ pc = "idle" /\ ~prev.done
  /\ \E batch \in BatchesOf(EventProtos) :
       /\ events' = batch
       /\ iter_used' = Len(batch)
  /\ pc' = "event_loop"
  /\ idx' = 1
  /\ UNCHANGED <<resolved, prev, scratch, dir, config, teams, year, ulocs, calls, perturbed>>

\* mutant: the override is not merged
Overridden_Skipped(key, event) == event

\* the record after "if key in self.events: event.update(self.events[key])"
Overridden(key, event) ==
  IF key \in DOMAIN self_events THEN Update(event, self_events[key]) ELSE event

\* mutant: only a fully null location is marked
MarkIgnore_Both(event) ==
  IF event["lat"] = None /\ event["lng"] = None
  THEN Update(event, [ignore |-> TRUE]) ELSE event

\* "if self.__noloc(event): event['ignore'] = True"
MarkIgnore(event) == IF noloc(event) THEN Update(event, [ignore |-> TRUE]) ELSE event

is_official(event) == "is_official" \in DOMAIN event /\ event["is_official"]

\* events.update(other): the dict's items become items of the collection
CollectionUpdate(coll, other) ==
  LET withLat == IF "lat" \in DOMAIN other THEN SetItem(coll, "lat", other["lat"]) ELSE coll
  IN IF "lng" \in DOMAIN other THEN SetItem(withLat, "lng", other["lng"]) ELSE withLat

\* the dict iterator finds the dict resized: RuntimeError leaves the call
EventIterRaise ==
  /\ pc = "event_loop" /\ Len(events) /= iter_used
  /\ pc' = "event_raised"
  /\ UNCHANGED <<resolved, prev, scratch, dir, config, teams, events, year, idx, iter_used, ulocs, calls, perturbed>>

\* the event has a location after the override step
EventLocated ==
  /\ pc = "event_loop" /\ Len(events) = iter_used /\ idx <= Len(events)
  /\ LET key == events[idx].key
         event == Overridden(key, events[idx].val)
     IN /\ ~noloc(event)
        /\ events' = [events EXCEPT ![idx].val = MarkIgnore(event)]
  /\ idx' = idx + 1
  /\ UNCHANGED <<resolved, prev, scratch, dir, config, teams, year, pc, iter_used, ulocs, calls, perturbed>>

\* no location, identifier in the event archive
EventArchived ==
  /\ pc = "event_loop" /\ Len(events) = iter_used /\ idx <= Len(events)
  /\ LET key == events[idx].key
         event == Overridden(key, events[idx].val)
     IN /\ noloc(event)
        /\ key \in DOMAIN event_archive
        /\ events' = CollectionUpdate([events EXCEPT ![idx].val = MarkIgnore(event)],
                                      event_archive[key])
  /\ idx' = idx + 1
  /\ UNCHANGED <<resolved, prev, scratch, dir, config, teams, year, pc, iter_used, ulocs, calls, perturbed>>

\* no location, no archive entry, official: enrich, then geocode
EventLive ==
  /\ pc = "event_loop" /\ Len(events) = iter_used /\ idx <= Len(events)
  /\ LET key == events[idx].key
         event == Overridden(key, events[idx].val)
     IN /\ noloc(event)
        /\ key \notin DOMAIN event_archive
        /\ is_official(event)
        /\ \E enh \in EnhanceAnswers :
             IF enh.kind = "raise"
             THEN /\ events' = [events EXCEPT ![idx].val = MarkIgnore(event)]
                  /\ calls' = Append(calls, Call("enhance", key, FALSE))
             ELSE LET enhanced == Update(event, enh.fields)
                  IN IF make_event_address(enhanced) = NoAddr
                     THEN /\ events' = [events EXCEPT ![idx].val =
                                MarkIgnore(geolocate_event(enhanced,
                                             [kind |-> "raise", results |-> <<>>]))]
                          /\ calls' = Append(calls, Call("enhance", key, TRUE))
                     ELSE \E ans \in ProviderAnswers :
                          /\ events' = [events EXCEPT ![idx].val =
                                MarkIgnore(geolocate_event(enhanced, ans))]
                          /\ calls' = calls \o <<Call("enhance", key, TRUE),
                                                 Call("geocode", key, Answered(ans))>>
  /\ idx' = idx + 1
  /\ UNCHANGED <<resolved, prev, scratch, dir, config, teams, year, pc, iter_used, ulocs, perturbed>>

\* no location, no archive entry, not official
EventUnofficial ==
  /\ pc = "event_loop" /\ Len(events) = iter_used /\ idx <= Len(events)
  /\ LET key == events[idx].key
         event == Overridden(key, events[idx].val)
     IN /\ noloc(event)
        /\ key \notin DOMAIN event_archive
        /\ ~is_official(event)
        /\ events' = [events EXCEPT ![idx].val = MarkIgnore(event)]
  /\ idx' = idx + 1
  /\ UNCHANGED <<resolved, prev, scratch, dir, config, teams, year, pc, iter_used, ulocs, calls, perturbed>>

EventLoopEnd ==
  /\ pc = "event_loop" /\ Len(events) = iter_used /\ idx > Len(events)
  /\ pc' = "event_save"
  /\ resolved' = events
  /\ UNCHANGED <<prev, scratch, dir, config, teams, events, year, idx, iter_used, ulocs, calls, perturbed>>

\* __save_event_archive
EventSave ==
  /\ pc = "event_save"
  /\ dir' = WriteFile(dir, EventFileName, ArchiveData(events))
  /\ pc' = "event_dedup"
  /\ idx' = 1
  /\ ulocs' = EmptyDict
  /\ UNCHANGED <<resolved, prev, scratch, config, teams, events, year, iter_used, calls, perturbed>>

EventDedup ==
  /\ pc = "event_dedup" /\ idx <= Len(events)
  /\ DedupStep(events)
  /\ idx' = idx + 1
  /\ UNCHANGED <<resolved, prev, scratch, dir, config, teams, year, pc, iter_used, calls>>

EventDedupEnd ==
  /\ pc = "event_dedup" /\ idx > Len(events)
  /\ pc' = "event_returned"
  /\ UNCHANGED <<resolved, prev, scratch, dir, config, teams, events, year, idx, iter_used, ulocs, calls, perturbed>>

EventNext == CallPopulateEvents \/ EventIterRaise \/ EventLocated \/ EventArchived
             \/ EventLive \/ EventUnofficial \/ EventLoopEnd \/ EventSave
             \/ EventDedup \/ EventDedupEnd

Next == TeamNext \/ EventNext

Spec == Init /\ [][Next]_vars

\* ------------------------------------------- two constructions in sequence
\* overrides for at most the first team of a batch
RerunOverrides == {o \in OverrideMaps : DOMAIN o \subseteq {KeyNames[1]}}

InitRerun == Init /\ self_teams \in RerunOverrides

RerunNext == TeamNext \/ Reconstruct \/ CallPopulateTeamsAgain

SpecRerun == InitRerun /\ [][RerunNext]_vars

\* ------------------------------------------------------ make_event_address
\* the fields make_event_address reads, in the order it joins them
EventFields == <<"venue", "address", "city", "state_prov", "postal_code", "country">>

FieldText == [venue |-> <<"v">>, address |-> <<"a">>, city |-> <<"c">>,
              state_prov |-> <<"s">>, postal_code |-> <<"p">>, country |-> <<"y">>]

\* per field: key absent, value None, empty string, or a text
FieldChoices == [{EventFields[n] : n \in 1..Len(EventFields)} ->
                   {"absent", "none", "empty", "text"}]

AddrInput(c) ==
  [f \in {g \in DOMAIN c : c[g] /= "absent"} |->
     IF c[f] = "none" THEN NoneStr ELSE IF c[f] = "empty" THEN <<>> ELSE FieldText[f]]

AddrInit ==
  /\ dir = EmptyDict
  /\ self_teams = EmptyDict
  /\ self_events = EmptyDict
  /\ team_archive = EmptyDict
  /\ event_archive = EmptyDict
  /\ teams = <<>>
  /\ events = <<>>
  /\ year = 0
  /\ pc = "addr_call"
  /\ idx = 0
  /\ iter_used = 0
  /\ ulocs = EmptyDict
  /\ calls = <<>>
  /\ perturbed = {}
  /\ latest = NoFile
  /\ resolved = <<>>
  /\ prev = FirstRun
  /\ \E c \in FieldChoices : addr_in = AddrInput(c)
  /\ addr_out = NoAddr

MakeEventAddress ==
  /\ pc = "addr_call"
  /\ addr_out' = make_event_address(addr_in)
  /\ pc' = "addr_returned"
  /\ UNCHANGED <<dir, config, teams, events, year, idx, iter_used, ulocs, calls,
                 perturbed, resolved, prev, addr_in>>

AddrNext == MakeEventAddress

SpecAddr == AddrInit /\ [][AddrNext]_vars

\* ================================================================ claims
FullLocation(d) == {"lat", "lng"} \subseteq DOMAIN d

SameLoc(rec, loc) == rec["lat"] = loc["lat"] /\ rec["lng"] = loc["lng"]

\* rec is loc moved by one __randomnize_location draw
Jittered(rec, loc) ==
  /\ rec["lat"] /= None /\ rec["lng"] /= None
  /\ rec["lat"] - loc["lat"] \in Jitter
  /\ rec["lng"] - loc["lng"] \in Jitter

\* the resolution loop has dealt with entry n of the batch
TeamResolved(n) ==
  \/ pc = "team_loop" /\ n < idx
  \/ pc \in {"team_dedup", "team_save", "team_returned"}

EventResolved(n) ==
  \/ pc \in {"event_loop", "event_raised"} /\ n < idx
  \/ pc \in {"event_save", "event_dedup", "event_returned"}

CallsFor(op, key) ==
  Cardinality({c \in 1..Len(calls) : calls[c].op = op /\ calls[c].key = key})

\* C1 as stated: when a populate_* call returns, every entity whose
\* identifier is in the Override Map (with an override carrying lat and lng)
\* has exactly the override's lat/lng.
C1_Original ==
  /\ pc = "team_returned" =>
       \A n \in 1..Len(teams) :
         (teams[n].key \in DOMAIN self_teams /\ FullLocation(self_teams[teams[n].key]))
           => SameLoc(teams[n].val, self_teams[teams[n].key])
  /\ pc = "event_returned" =>
       \A n \in 1..Len(events) :
         (events[n].key \in DOMAIN self_events /\ FullLocation(self_events[events[n].key]))
           => SameLoc(events[n].val, self_events[events[n].key])

\* C1 amended: an entity whose override carries lat and lng has the
\* override's lat/lng from its resolution step on, whatever the archive and
\* the provider say, until and unless the deduplication pass perturbs it;
\* a perturbed entity has the override's pair moved by the jitter drawn.
C1_OverridePrecedence ==
  /\ \A n \in 1..Len(teams) :
       (TeamResolved(n) /\ teams[n].key \in DOMAIN self_teams
          /\ FullLocation(self_teams[teams[n].key]))
         => IF teams[n].key \in perturbed
            THEN Jittered(teams[n].val, self_teams[teams[n].key])
            ELSE SameLoc(teams[n].val, self_teams[teams[n].key])
  /\ \A n \in 1..Len(events) :
       (EventResolved(n) /\ events[n].key \in DOMAIN self_events
          /\ FullLocation(self_events[events[n].key]))
         => IF events[n].key \in perturbed
            THEN Jittered(events[n].val, self_events[events[n].key])
            ELSE SameLoc(events[n].val, self_events[events[n].key])

\* an overridden team that is also archived, and an overridden event that
\* arrived with another location, end the call at the override's location
C1_Witness ==
  \/ /\ pc = "team_returned"
     /\ \E n \in 1..Len(teams) :
          /\ teams[n].key \in DOMAIN self_teams
          /\ teams[n].key \in DOMAIN team_archive
          /\ self_teams[teams[n].key] = L1
          /\ SameLoc(teams[n].val, L1)
     /\ perturbed /= {}
  \/ /\ pc = "event_returned"
     /\ \E n \in 1..Len(events) :
          /\ events[n].key \in DOMAIN self_events
          /\ self_events[events[n].key] = L1
          /\ SameLoc(events[n].val, L1)
     /\ perturbed /= {}

\* C2 as stated: when populate_team_locations returns, every team that is
\* not overridden but is in the loaded team archive has exactly the archived
\* lat/lng.
C2_Original ==
  pc = "team_returned" =>
    \A n \in 1..Len(teams) :
      (teams[n].key \notin DOMAIN self_teams /\ teams[n].key \in DOMAIN team_archive)
        => SameLoc(teams[n].val, team_archive[teams[n].key])

\* C2 amended: a team that is not overridden but is in the loaded team
\* archive has the archived lat/lng from its resolution step on, until and
\* unless the deduplication pass perturbs it; a perturbed team has the
\* archived pair moved by the jitter drawn.
C2_ArchivePrecedence ==
  \A n \in 1..Len(teams) :
    (TeamResolved(n) /\ teams[n].key \notin DOMAIN self_teams
       /\ teams[n].key \in DOMAIN team_archive)
      => IF teams[n].key \in perturbed
         THEN Jittered(teams[n].val, team_archive[teams[n].key])
         ELSE SameLoc(teams[n].val, team_archive[teams[n].key])

\* a team that arrived with another location ends the call at the archived one
C2_Witness ==
  /\ pc = "team_returned"
  /\ \E n \in 1..Len(teams) :
       /\ teams[n].key \notin DOMAIN self_teams
       /\ teams[n].key \in DOMAIN team_archive
       /\ SameLoc(teams[n].val, team_archive[teams[n].key])
       /\ make_team_address(teams[n].val) /= NoAddr

\* C3: during populate_team_locations the provider is invoked for no team
\* that is in the Override Map or in the team archive, exactly once for any
\* other team with an address, never for a team without one, and never a
\* second time after a failure.
C3_ProviderDiscipline ==
  pc \in {"team_loop", "team_dedup", "team_save", "team_returned"} =>
    /\ \A c \in 1..Len(calls) :
         calls[c].op = "geocode" /\ calls[c].key \in BatchKeys(teams)
    /\ \A n \in 1..Len(teams) :
         CallsFor("geocode", teams[n].key) =
           IF /\ TeamResolved(n)
              /\ teams[n].key \notin DOMAIN self_teams
              /\ teams[n].key \notin DOMAIN team_archive
              /\ make_team_address(teams[n].val) /= NoAddr
           THEN 1 ELSE 0

\* one team's single call failed, the other team was served without a call
C3_Witness ==
  /\ pc = "team_returned"
  /\ Len(teams) = 2
  /\ Len(calls) = 1
  /\ ~calls[1].ok
  /\ \E n \in 1..2 : teams[n].key \in DOMAIN self_teams \cup DOMAIN team_archive

HasNull(rec) == rec["lat"] = None \/ rec["lng"] = None

LocatedKeys(coll) == {coll[n].key : n \in {m \in 1..Len(coll) : ~HasNull(coll[m].val)}}

\* C4 as stated: when a populate_* call returns, lat and lng of every entity
\* of the batch are both null or both non-null.
C4_Original ==
  /\ pc = "team_returned" =>
       \A n \in 1..Len(teams) :
         (teams[n].val["lat"] = None) <=> (teams[n].val["lng"] = None)
  /\ pc = "event_returned" =>
       \A n \in 1..Len(events) :
         (events[n].val["lat"] = None) <=> (events[n].val["lng"] = None)

\* the entries of a written archive file are complete and cover no entity of
\* the batch that lacks a location
Filtered(file, coll) ==
  /\ \A k \in DOMAIN file :
       FullLocation(file[k]) /\ file[k]["lat"] /= None /\ file[k]["lng"] /= None
  /\ \A n \in 1..Len(coll) : HasNull(coll[n].val) => coll[n].key \notin DOMAIN file

\* C5: no entry of an archive file written by a populate_* call has a null
\* lat or lng, and no entity without a location at save time is in the file.
C5_ArchiveFiltering ==
  /\ pc = "team_returned" => Filtered(dir[TeamFileName(year)], teams)
  /\ pc \in {"event_dedup", "event_returned"} => Filtered(dir[EventFileName], events)

\* a half-filled team and a located team were saved: only the latter is in the file
C5_Witness ==
  /\ pc = "team_returned"
  /\ \E n \in 1..Len(teams) : teams[n].val["lat"] /= None /\ teams[n].val["lng"] = None
  /\ \E n \in 1..Len(teams) :
       /\ ~HasNull(teams[n].val)
       /\ DOMAIN dir[TeamFileName(year)] = {teams[n].key}

\* the file content the claim describes for a batch
ExactArchive(coll) ==
  [k \in LocatedKeys(coll) |-> Loc(Get(coll, k)["lat"], Get(coll, k)["lng"])]

\* C6: the file a populate_* call writes maps exactly the identifiers of the
\* batch's located entities to their {lat, lng} as of the save; nothing of
\* the previously loaded archive is carried over and no other field is kept.
C6_WholesaleRewrite ==
  /\ pc = "team_returned" => dir[TeamFileName(year)] = ExactArchive(teams)
  /\ (pc = "event_dedup" /\ idx = 1) => dir[EventFileName] = ExactArchive(events)
  /\ pc \in {"event_dedup", "event_returned"} =>
       /\ DOMAIN dir[EventFileName] = LocatedKeys(events)
       /\ \A k \in LocatedKeys(events) \ perturbed :
            dir[EventFileName][k] = ExactArchive(events)[k]

\* the year's file held an entry the batch did not locate; the rewritten
\* file has an overridden team and has lost that entry
C6_Witness ==
  /\ pc = "team_returned"
  /\ MatchedYears(dir) = {year}
  /\ \E k \in DOMAIN team_archive : k \notin DOMAIN dir[TeamFileName(year)]
  /\ \E k \in DOMAIN self_teams : k \in DOMAIN dir[TeamFileName(year)]

\* C7 as stated: the step that handles an event without a location after the
\* override step and with an entry in the event archive leaves that event
\* with the archived lat/lng, not marked ignore, and calls no collaborator.
C7_Original ==
  [][(/\ pc = "event_loop" /\ Len(events) = iter_used /\ idx <= Len(events)
      /\ HasNull(Overridden(events[idx].key, events[idx].val))
      /\ events[idx].key \in DOMAIN event_archive)
     => /\ SameLoc(events'[idx].val, event_archive[events[idx].key])
        /\ "ignore" \notin DOMAIN events'[idx].val
        /\ calls' = calls]_vars

\* C8 as stated: no per-entity outcome makes a populate_* call leave by an
\* exception before the batch is processed, deduplicated and archived.
C8_Original == pc /= "event_raised"

\* C9: when populate_event_locations returns, exactly the events without a
\* location carry ignore = true; and the step that handles a non-official
\* event without a location that is in neither the overrides nor the archive
\* leaves it UNKNOWN and marked ignore.
C9_IgnoreMarking ==
  /\ [](pc = "event_returned" =>
          \A n \in 1..Len(events) :
            HasNull(events[n].val)
              <=> ("ignore" \in DOMAIN events[n].val /\ events[n].val["ignore"]))
  /\ [][(/\ pc = "event_loop" /\ Len(events) = iter_used /\ idx <= Len(events)
         /\ events[idx].key \notin DOMAIN self_events \cup DOMAIN event_archive
         /\ ~is_official(events[idx].val)
         /\ SameLoc(events[idx].val, UNKNOWN))
        => /\ SameLoc(events'[idx].val, UNKNOWN)
           /\ "ignore" \in DOMAIN events'[idx].val
           /\ events'[idx].val["ignore"]]_vars

\* a non-official event ended UNKNOWN and ignored, a half-overridden one
\* ended ignored, next to none that is located
C9_Witness ==
  /\ pc = "event_returned"
  /\ Len(events) = 2
  /\ \E n \in 1..2 :
       /\ ~is_official(events[n].val)
       /\ events[n].key \notin DOMAIN self_events
       /\ SameLoc(events[n].val, UNKNOWN)
       /\ "ignore" \in DOMAIN events[n].val
  /\ \E n \in 1..2 :
       /\ events[n].val["lat"] /= None /\ events[n].val["lng"] = None
       /\ "ignore" \in DOMAIN events[n].val

\* C10: when populate_team_locations returns, a team in neither the Override
\* Map nor the team archive for which no address could be built, or whose
\* provider call raised or returned no result, is UNKNOWN and is not in the
\* file just written.
C10_TeamResolutionFailure ==
  pc = "team_returned" =>
    \A n \in 1..Len(teams) :
      (/\ teams[n].key \notin DOMAIN self_teams \cup DOMAIN team_archive
       /\ \/ make_team_address(teams[n].val) = NoAddr
          \/ \E c \in 1..Len(calls) : calls[c].key = teams[n].key /\ ~calls[c].ok)
        => /\ teams[n].val["lat"] = None
           /\ teams[n].val["lng"] = None
           /\ teams[n].key \notin DOMAIN dir[TeamFileName(year)]

\* one team had no address, the other's provider call failed
C10_Witness ==
  /\ pc = "team_returned"
  /\ Len(teams) = 2
  /\ \E n \in 1..2 : make_team_address(teams[n].val) = NoAddr
  /\ Len(calls) = 1 /\ ~calls[1].ok
  /\ \A n \in 1..2 : SameLoc(teams[n].val, UNKNOWN)
  /\ DOMAIN dir[TeamFileName(year)] = {}

\* ------------------------------------------------------------------- C11
IsUnknown(rec) == rec["lat"] = None /\ rec["lng"] = None

\* the year of the call is the largest year with a team archive file
LargestYear == \A y \in MatchedYears(dir) : y <= year

\* C11: when the second populate_team_locations over the same teams returns
\* (new geocoder, same directory and overrides, the year being the largest
\* archived one), every team that ended the first run UNKNOWN was taken to
\* live resolution again (it is in neither the overrides nor the reloaded
\* archive, and the provider was called once for it when it has an address),
\* and the provider was called for no team that ended the first run located.
C11_ReattemptAcrossRuns ==
  (pc = "team_returned" /\ prev.done /\ LargestYear) =>
    \A n \in 1..Len(teams) :
      LET key == teams[n].key
          old == prev.teams[n].val
      IN /\ IsUnknown(old) =>
              /\ key \notin DOMAIN self_teams
              /\ key \notin DOMAIN team_archive
              /\ make_team_address(old) /= NoAddr => CallsFor("geocode", key) = 1
         /\ ~HasNull(old) => CallsFor("geocode", key) = 0

\* a second run that called the provider again for a team left UNKNOWN by
\* the first run and did not call it for a team the first run located
C11_Witness ==
  /\ pc = "team_returned" /\ prev.done /\ LargestYear
  /\ \E n, m \in 1..Len(teams) :
       /\ IsUnknown(prev.teams[n].val)
       /\ CallsFor("geocode", teams[n].key) = 1
       /\ ~HasNull(prev.teams[m].val)
       /\ teams[m].key \notin DOMAIN self_teams
       /\ CallsFor("geocode", teams[m].key) = 0

\* ------------------------------------------------------------------- C12
\* the batch a finished __dedup_locations pass has worked on, or <<>>
Deduped ==
  IF pc \in {"team_save", "team_returned"} THEN teams
  ELSE IF pc = "event_returned" THEN events
  ELSE <<>>

Located(coll, n) == ~HasNull(coll[n].val)

SamePair(coll, n, m) ==
  /\ coll[n].val["lat"] = coll[m].val["lat"]
  /\ coll[n].val["lng"] = coll[m].val["lng"]

\* entries n and m of the resolved batch are located at the same pair
Collide(n, m) ==
  /\ Located(resolved, n) /\ Located(resolved, m)
  /\ SamePair(resolved, n, m)

\* entry n is the first of the resolved batch located at its pair
FirstHolder(n) ==
  /\ Located(resolved, n)
  /\ \A j \in 1..(n - 1) : ~Collide(j, n)

\* C12 as stated: whenever two entities of a batch resolve to exactly the
\* same (lat, lng) pair, after deduplication the earlier one retains that
\* pair, the other has a pair close to it, and the two pairs differ.
C12_Original ==
  \A n, m \in 1..Len(Deduped) :
    (n < m /\ Collide(n, m)) =>
      /\ SameLoc(Deduped[n].val, resolved[n].val)
      /\ Jittered(Deduped[m].val, resolved[m].val)
      /\ ~SamePair(Deduped, n, m)

\* C12 amended: whenever two entities of a batch resolve to exactly the same
\* (lat, lng) pair and the earlier one is the first of the batch with that
\* pair, after deduplication the earlier one retains the pair and the other
\* one has been moved by one draw to a pair close to it.
C12_CollisionSeparation ==
  \A n, m \in 1..Len(Deduped) :
    (n < m /\ FirstHolder(n) /\ Collide(n, m)) =>
      /\ SameLoc(Deduped[n].val, resolved[n].val)
      /\ Deduped[m].key \in perturbed
      /\ Jittered(Deduped[m].val, resolved[m].val)

\* a finished pass over two colliding entities that moved the later one away
C12_Witness ==
  \E n, m \in 1..Len(Deduped) :
    /\ n < m /\ FirstHolder(n) /\ Collide(n, m)
    /\ ~SamePair(Deduped, n, m)

\* ------------------------------------------------------------------- C13
\* the entries among the first k of the resolved batch that share their pair
\* with an earlier located entry: a function of the pre-dedup state alone
Colliders(k) ==
  {resolved[m].key : m \in {j \in 1..k : \E n \in 1..(j - 1) : Collide(n, j)}}

\* the number of entries the running or finished pass has visited
Visited ==
  IF pc \in {"team_dedup", "event_dedup"} THEN idx - 1 ELSE Len(Deduped)

HasTeamFile(y) == y \in Years /\ TeamFileName(y) \in DOMAIN dir

\* C14: right after a construction, when the directory has team archive
\* files the loaded team archive is the content of the one with the maximum
\* year; when it has none the team archive is empty (and the construction
\* has completed).
C14_TeamArchiveSelection ==
  pc = "idle" =>
    IF \E y \in Years : HasTeamFile(y)
    THEN \E y \in Years :
           /\ HasTeamFile(y)
           /\ \A z \in Years : HasTeamFile(z) => z <= y
           /\ latest = TeamFileName(y)
           /\ team_archive = dir[TeamFileName(y)]
    ELSE team_archive = EmptyDict /\ latest = NoFile

\* a construction over a directory holding files for 2021 and 2022 with
\* different contents, the 2021 one written by the call just before
C14_Witness ==
  /\ pc = "idle" /\ prev.done /\ year = 2021
  /\ HasTeamFile(2021) /\ HasTeamFile(2022)
  /\ dir[TeamFileName(2021)] /= dir[TeamFileName(2022)]
  /\ team_archive = dir[TeamFileName(2022)]

\* ------------------------------------------------------------------- C15
\* the fields of data that are present, not None and not empty, in order
RECURSIVE NonEmptyFields(_, _)
NonEmptyFields(d, n) ==
  IF n > Len(EventFields) THEN <<>>
  ELSE LET f == EventFields[n]
           rest == NonEmptyFields(d, n + 1)
       IN IF f \in DOMAIN d /\ d[f] /= NoneStr /\ d[f] /= <<>>
          THEN <<d[f]>> \o rest ELSE rest

RECURSIVE SingleSpaced(_)
SingleSpaced(parts) ==
  IF parts = <<>> THEN <<>>
  ELSE IF Len(parts) = 1 THEN parts[1]
  ELSE parts[1] \o <<" ">> \o SingleSpaced(Tail(parts))

\* C15 as stated: make_event_address returns the non-empty ones of venue,
\* address, city, state_prov, postal_code, country in that order separated
\* by exactly one space (absent and null fields count as empty), and null
\* exactly when no field is non-empty.
C15_Original ==
  pc = "addr_returned" =>
    addr_out = IF NonEmptyFields(addr_in, 1) = <<>> THEN NoAddr
               ELSE SingleSpaced(NonEmptyFields(addr_in, 1))

\* ------------------------------------------------------------------- C16
\* C16: the event archive written by populate_event_locations holds, for
\* every located event, the coordinates the resolution loop left (pre-jitter)
\* and stays so through the deduplication pass that follows the save; the
\* team archive written by populate_team_locations holds every located
\* team's coordinates as they are when the call returns (post-jitter); and
\* while the resolution loop of either call runs (and up to the event save)
\* no deduplication step has been taken.
C16_PipelineOrdering ==
  /\ pc \in {"event_dedup", "event_returned"} =>
       /\ EventFileName \in DOMAIN dir
       /\ dir[EventFileName] = ExactArchive(resolved)
  /\ pc = "team_returned" =>
       /\ TeamFileName(year) \in DOMAIN dir
       /\ dir[TeamFileName(year)] = ExactArchive(teams)
  /\ pc \in {"team_loop", "event_loop", "event_save"} =>
       /\ perturbed = {}
       /\ ulocs = EmptyDict

\* a returned populate_event_locations whose pass moved an event away from
\* the coordinates saved for it
C16_Witness ==
  /\ pc = "event_returned"
  /\ \E n \in 1..Len(events) :
       /\ events[n].key \in perturbed
       /\ events[n].key \in DOMAIN dir[EventFileName]
       /\ ~SameLoc(events[n].val, dir[EventFileName][events[n].key])
       /\ SameLoc(resolved[n].val, dir[EventFileName][events[n].key])

\* ------------------------------------------------------------------- C17
LocatedEntries == {n \in 1..Len(resolved) : Located(resolved, n)}

\* the distinct pairs the located entities hold before the pass
PreDedupPairs ==
  {<<resolved[n].val["lat"], resolved[n].val["lng"]>> : n \in LocatedEntries}

\* the identifiers recorded in ulocs as holders of a pair
Claimants == {ulocs[loc] : loc \in DOMAIN ulocs}

\* C17: after one deduplication pass, the first entity in collection order
\* holding a pre-dedup pair is recorded as its holder and is unchanged, every
\* later located entity with that pair has been perturbed, by one draw;
\* the number of perturbed entities is the number of located entities minus
\* the number of distinct pre-dedup pairs; and an entity without a location
\* is unchanged, not perturbed and holder of no pair.
C17_FirstWriterWins ==
  Deduped /= <<>> =>
    /\ \A n \in 1..Len(Deduped) :
         LET key == Deduped[n].key
         IN /\ FirstHolder(n) =>
                 /\ Deduped[n] = resolved[n]
                 /\ key \notin perturbed
                 /\ ulocs[<<resolved[n].val["lat"], resolved[n].val["lng"]>>] = key
            /\ (Located(resolved, n) /\ ~FirstHolder(n)) =>
                 /\ key \in perturbed
                 /\ key \notin Claimants
                 /\ Jittered(Deduped[n].val, resolved[n].val)
            /\ ~Located(resolved, n) =>
                 /\ Deduped[n] = resolved[n]
                 /\ key \notin perturbed
                 /\ key \notin Claimants
    /\ Cardinality(perturbed) =
         Cardinality(LocatedEntries) - Cardinality(PreDedupPairs)

\* a finished pass over two located entities with one pre-dedup pair that
\* left the first in place as the holder and perturbed the second
C17_Witness ==
  /\ Deduped /= <<>>
  /\ Cardinality(LocatedEntries) = 2
  /\ Cardinality(PreDedupPairs) = 1
  /\ Cardinality(perturbed) = 1
  /\ \E n \in LocatedEntries : FirstHolder(n) /\ Deduped[n].key \in Claimants

\* ------------------------------------------------------------------- C18
\* the collaborator calls the step from the current state has added
NewCalls == SubSeq(calls', Len(calls) + 1, Len(calls'))

\* C18 as stated: in the step that resolves an event which has no location
\* after the override step and is not in the event archive, the enrichment
\* collaborator is called if and only if is_official is true and before any
\* provider call, the provider is not called when enrichment throws, and
\* after an exception from enrichment or geocoding the event is UNKNOWN
\* (lat and lng both null).
C18_Original ==
  [][(pc = "event_loop" /\ idx' = idx + 1) =>
       LET key == events[idx].key
           event == Overridden(key, events[idx].val)
       IN (HasNull(event) /\ key \notin DOMAIN event_archive) =>
            /\ is_official(event) <=> (NewCalls /= <<>> /\ NewCalls[1].op = "enhance")
            /\ \A c \in 1..Len(NewCalls) :
                 NewCalls[c].op = "geocode" =>
                   (c = 2 /\ NewCalls[1].op = "enhance" /\ NewCalls[1].ok)
            /\ Len(NewCalls) <= 2
            /\ (\E c \in 1..Len(NewCalls) : ~NewCalls[c].ok) =>
                 IsUnknown(events'[idx].val)]_vars

\* ------------------------------------------------------------------- C19
\* C19 as stated: no step of populate_team_locations or
\* populate_event_locations adds an entry to or removes one from the
\* caller's collection; the set of its identifiers stays as passed in.
C19_Original ==
  [][pc /= "idle" =>
       /\ BatchKeys(teams') = BatchKeys(teams)
       /\ BatchKeys(events') = BatchKeys(events)
       /\ Len(teams') = Len(teams)
       /\ Len(events') = Len(events)]_vars

\* ------------------------------------------------------------------- C20
\* what populate_team_locations wrote for its year in the run before the
\* last construction
JustWritten == ExactArchive(prev.teams)

\* C20: right after a construction that follows populate_team_locations
\* (teams, Y), the file for Y holds what the call wrote; the file the new
\* geocoder loads is the one for Y if and only if Y is at least every year
\* with a team archive file, and then the team archive is the content just
\* written; otherwise the loaded file is the file of a later year and the
\* team archive is that file's content.
C20_SaveReloadByYear ==
  (pc = "idle" /\ prev.done) =>
    /\ HasTeamFile(year) /\ dir[TeamFileName(year)] = JustWritten
    /\ latest = TeamFileName(year) <=> (\A z \in Years : HasTeamFile(z) => z <= year)
    /\ latest = TeamFileName(year) => team_archive = JustWritten
    /\ latest /= TeamFileName(year) =>
         \E z \in Years :
           /\ HasTeamFile(z) /\ z > year
           /\ latest = TeamFileName(z)
           /\ team_archive = dir[TeamFileName(z)]

\* a construction after a call for 2021 that saved a location, over a
\* directory with a 2022 file: the locations just saved are not loaded
C20_Witness ==
  /\ pc = "idle" /\ prev.done
  /\ year < 2022 /\ HasTeamFile(2022)
  /\ JustWritten /= EmptyDict
  /\ \E k \in DOMAIN JustWritten : k \notin DOMAIN team_archive

====
